---- MODULE Spec2Model ----
(***************************************************************************)
(* Model of src/bfmr_monitor_github.py: the BFMR deal monitor.  One        *)
(* process invocation (main) builds a BFMRMonitor, which loads the ids of  *)
(* the previous run from last_run_deals.json, fetches the current deals    *)
(* with one GET, finds the Amazon deals, saves their ids, and mails the    *)
(* deals that were not in the previous run.  Invocations follow one        *)
(* another; the file is the only state that survives between them.         *)
(***************************************************************************)
EXTENDS Integers, Sequences, FiniteSets, TLC

\* Largest number of deals in one API response.
MaxDeals == 2

(***************************************************************************)
(* Values                                                                  *)
(***************************************************************************)

\* Values of a deal's 'deal_id' key in the API response; "<missing>" is a
\* deal without the key.
RawIds == {"A", "B", "C", "", "<missing>"}

\* Values of a deal's 'retailers' key; "<null>" is a JSON null, on which
\* .lower() raises AttributeError.
RetailerVals == {"Amazon", "Walmart", "<null>"}

\* Values of a deal's 'title' key, one of the fields format_deal_info
\* prints and the loop does not read.
Titles == {"t1", "t2"}

Deals == [deal_id : RawIds, retailers : RetailerVals, title : Titles]

\* The deals the provider can return (its catalogue) in the runs of the
\* main specification: two ids, an empty and a missing id, one title.
MainCatalogue ==
    {d \in Deals : d.deal_id # "C" /\ d.title = "t1"}

\* A catalogue in which the deals A and B come with either title.
IdentityCatalogue ==
    {d \in Deals : /\ d.deal_id \in {"A", "B"}
                   /\ \/ d.retailers = "Amazon"
                      \/ (d.retailers # "Amazon" /\ d.deal_id = "A" /\ d.title = "t1")}

\* A catalogue of three Amazon deals and one without an id.
ThreeIdCatalogue ==
    {d \in Deals : /\ d.title = "t1"
                   /\ \/ (d.retailers = "Amazon" /\ d.deal_id # "")
                      \/ (d.retailers # "Amazon" /\ d.deal_id = "A")}

\* Variant in which the key of a deal is made of its id and its title.
DealIdOf_withTitle(deal) ==
    IF deal.deal_id = "<missing>" THEN "" ELSE deal.deal_id \o deal.title

\* deal_id = str(deal.get('deal_id', ''))
DealIdOf(deal) ==
    IF deal.deal_id = "<missing>" THEN "" ELSE deal.deal_id

\* str.lower() on the retailer strings of the model
Lower(s) ==
    CASE s = "Amazon"  -> "amazon"
      [] s = "Walmart" -> "walmart"
      [] OTHER         -> s

\* 'amazon' in retailers
ContainsAmazon(s) == s \in {"amazon"}

\* deal.get('retailers', '').lower() raises when the value is not a string
RetailersRaises(deal) == deal.retailers = "<null>"

IsAmazonDeal(deal) == ContainsAmazon(Lower(deal.retailers))

DealSeqs(cat) == UNION {[1..n -> cat] : n \in 0..MaxDeals}

\* Parsed JSON bodies: a bare list, an object with a 'deals' or a 'data'
\* key, an object with neither, and the empty object.
Payloads(cat) ==
    [shape : {"list", "deals", "data"}, items : DealSeqs(cat)]
        \cup {[shape |-> "nokey", items |-> <<>>],
              [shape |-> "emptydict", items |-> <<>>]}

NoneVal == [shape |-> "None", items |-> <<>>]

Unparseable == [shape |-> "unparseable", items |-> <<>>]

\* What requests.get produces: a response with a status code and a body,
\* or an exception (timeout, connection error).
Responses(cat) ==
    [exc : {FALSE}, status : {200}, body : Payloads(cat) \cup {Unparseable}]
        \cup [exc : {FALSE}, status : {401, 503}, body : {NoneVal}]
        \cup [exc : {TRUE}, status : {0}, body : {NoneVal}]

\* Contents of last_run_deals.json: no file, a complete record (deal_ids
\* is the JSON array the record holds), or what open(..., 'w') and an
\* interrupted write leave (an empty file or the prefix of a record).
AbsentFile == [kind |-> "absent", deal_ids |-> <<>>]

PartialFile == [kind |-> "partial", deal_ids |-> <<>>]

RecordFile(ids) == [kind |-> "record", deal_ids |-> ids]

\* Contents the program itself never writes:
\*   not_object  valid JSON that is not an object (a list, a number)
\*   ids_null    an object whose deal_ids is null or a number
\*   ids_string  an object whose deal_ids is a string; deal_ids holds its
\*               characters
\*   mixed       a record followed by the tail of a longer, older one
NotObjectFile == [kind |-> "not_object", deal_ids |-> <<>>]

IdsNullFile == [kind |-> "ids_null", deal_ids |-> <<>>]

IdsStringFile(chars) == [kind |-> "ids_string", deal_ids |-> chars]

MixedFile(old) == [kind |-> "mixed", deal_ids |-> old.deal_ids]

Range(seq) == {seq[i] : i \in 1..Len(seq)}

\* list(deal_ids): the elements of the set, each once, in some order
ListsOf(ids) ==
    {l \in [1..Cardinality(ids) -> ids] : Range(l) = ids}

\* Length of the lines json.dump(..., indent=2) writes for the ids: per id
\* the id, its quotes, the indentation and the separator.
RECURSIVE LinesLen(_)
LinesLen(l) ==
    IF l = <<>> THEN 0 ELSE Len(Head(l)) + 8 + LinesLen(Tail(l))

\* Length of the array's text beyond "[]": a non-empty array also has the
\* line break and indentation before its closing bracket.
ArrayTextLen(l) == IF l = <<>> THEN 0 ELSE 2 + LinesLen(l)

\* Length of the file; the lines around the array are the same in every
\* record and are left out.
FileLen(f) ==
    IF f.kind \in {"absent", "partial"} THEN 0 ELSE ArrayTextLen(f.deal_ids)

\* The file after `new` is written at offset 0 of a file opened with 'w'
\* earlier: what `old` holds beyond the end of `new` stays.
Overlay(old, new) ==
    IF FileLen(new) >= FileLen(old) THEN new ELSE MixedFile(old)

\* Python truthiness of the value get_deals returns
Truthy(v) ==
    CASE v.shape = "None"      -> FALSE
      [] v.shape = "emptydict" -> FALSE
      [] v.shape = "list"      -> Len(v.items) > 0
      [] OTHER                 -> TRUE

(***************************************************************************)
(* Pure functions of the program                                           *)
(***************************************************************************)

\* Variant of load that filters out falsy ids.
load_last_run_deals_nonempty(f) ==
    IF f.kind \in {"record", "ids_string"} THEN Range(f.deal_ids) \ {""} ELSE {}

\* BFMRMonitor.load_last_run_deals: set(data.get('deal_ids', [])) of the
\* parsed object; the bare except turns every exception (no JSON, no
\* .get on a list, set(None)) into set().  set() of a string is the set
\* of its characters.
load_last_run_deals(f) ==
    IF f.kind \in {"record", "ids_string"} THEN Range(f.deal_ids) ELSE {}

\* BFMRMonitor.get_deals, given what the one requests.get produced
get_deals(r) ==
    IF r.exc THEN NoneVal
    ELSE IF r.status = 200
         THEN IF r.body = Unparseable THEN NoneVal ELSE r.body
         ELSE IF r.status = 401 THEN NoneVal
         ELSE NoneVal

\* deals = deals_data; if dict: deals_data.get('deals', deals_data.get('data', []))
ExtractDeals(v) ==
    IF v.shape \in {"list", "deals", "data"} THEN v.items ELSE <<>>

\* The loop over the deals raises at the first deal whose retailers is null
LoopRaises(deals) == \E i \in 1..Len(deals) : RetailersRaises(deals[i])

\* amazon_deals after the loop
AmazonDeals(deals) == SelectSeq(deals, IsAmazonDeal)

\* current_amazon_ids after the loop
CurrentAmazonIds(deals) ==
    {DealIdOf(deals[i]) : i \in {j \in 1..Len(deals) : IsAmazonDeal(deals[j])}}

\* Variant of the loop's test without the "deal_id and" conjunct.
NewOrReturning_noEmptyTest(deals, last) ==
    LET IsNew(d) == IsAmazonDeal(d) /\ DealIdOf(d) \notin last
    IN  SelectSeq(deals, IsNew)

\* Variant of the loop that stops appending after the first new deal.
NewOrReturning_firstOnly(deals, last) ==
    LET IsNew(d) == IsAmazonDeal(d) /\ DealIdOf(d) # "" /\ DealIdOf(d) \notin last
        all == SelectSeq(deals, IsNew)
    IN  IF all = <<>> THEN <<>> ELSE <<Head(all)>>

\* new_or_returning_deals after the loop
NewOrReturning(deals, last) ==
    LET IsNew(d) == IsAmazonDeal(d) /\ DealIdOf(d) # "" /\ DealIdOf(d) \notin last
    IN  SelectSeq(deals, IsNew)

(***************************************************************************)
(* State                                                                   *)
(***************************************************************************)
VARIABLES
    pc,                      \* position of the current invocation
    file,                    \* last_run_deals.json
    file_at_start,           \* the file when the current invocation began
    last_run_deals,          \* self.last_run_deals
    resp,                    \* what requests.get produced in this run
    gets,                    \* GETs issued in this run
    deals_data,              \* value returned by get_deals
    amazon_deals,
    current_amazon_ids,
    new_or_returning_deals,
    committed,               \* save_current_run_deals completed in this run
    notif_step,              \* "pending", "notified" or "skipped"
    mails,                   \* messages handed to smtplib in this run
    email_ok,                \* return value of send_email, "none" before
    outcome,                 \* how the run ended
    exit_code,               \* value main returns, -1 while running
    this_run,                \* record of the current run
    prev_run,                \* record of the run before it
    env,                     \* the settings present in the environment
    log,                     \* kind of the error message main printed
    disappeared,             \* self.last_run_deals - current_amazon_ids
    other,                   \* a second, overlapping invocation
    catalogue,               \* the deals the provider can return
    last_commit              \* the Amazon deals whose ids the last completed
                             \* save wrote; empty once a later save has begun

vars == <<pc, file, file_at_start, last_run_deals, resp, gets, deals_data,
          amazon_deals, current_amazon_ids, new_or_returning_deals,
          committed, notif_step, mails, email_ok, outcome, exit_code,
          this_run, prev_run, env, log, disappeared, other,
          catalogue, last_commit>>

\* The environment variables __init__ reads without a default.
Settings ==
    {"BFMR_API_KEY", "BFMR_API_SECRET", "EMAIL_FROM", "EMAIL_TO", "EMAIL_PASSWORD"}

\* if not all([api_key, api_secret, from_email, password]): raise ValueError
ConfigValid(e) ==
    {"BFMR_API_KEY", "BFMR_API_SECRET", "EMAIL_FROM", "EMAIL_PASSWORD"} \subseteq e

\* Variant of main with one handler for every exception.
main_except_oneHandler(exc) == [code |-> 1, log |-> "unexpected_error"]

\* main's handlers: ValueError prints "Configuration Error", any other
\* Exception prints "Unexpected Error"; both return 1.
main_except(exc) ==
    IF exc = "ValueError"
    THEN [code |-> 1, log |-> "config_error"]
    ELSE [code |-> 1, log |-> "unexpected_error"]

\* What send_email can return: without a recipient smtplib raises
\* SMTPRecipientsRefused and send_email returns False.
SendResults(e) == IF "EMAIL_TO" \in e THEN BOOLEAN ELSE {FALSE}

\* Variant with the operands of the difference exchanged.
Disappeared_swapped(last, current) == current \ last

\* disappeared = self.last_run_deals - current_amazon_ids
Disappeared(last, current) == last \ current

NoOther == [pc |-> "none", deal_ids |-> <<>>]

NoResp == [exc |-> FALSE, status |-> 0, body |-> NoneVal]

\* has_q: the run computed a qualified id set (fetch 200, no exception);
\* undelivered: ids whose mail failed after the state was saved.
\* fetch_failed: get_deals returned None.
NoRun ==
    [has_q |-> FALSE, qualified |-> {}, reported |-> {}, undelivered |-> {},
     fetch_failed |-> FALSE]

Ids(deals) == {DealIdOf(deals[i]) : i \in 1..Len(deals)}

\* The state before the first invocation, with f in the working directory
\* and the settings e in the environment.
InitWith(f, e, c) ==
    /\ pc = "idle"
    /\ file = f
    /\ file_at_start = f
    /\ last_run_deals = {}
    /\ resp = NoResp
    /\ gets = 0
    /\ deals_data = NoneVal
    /\ amazon_deals = <<>>
    /\ current_amazon_ids = {}
    /\ new_or_returning_deals = <<>>
    /\ committed = FALSE
    /\ notif_step = "pending"
    /\ mails = 0
    /\ email_ok = "none"
    /\ outcome = "none"
    /\ exit_code = -1
    /\ this_run = NoRun
    /\ prev_run = NoRun
    /\ env = e
    /\ log = "none"
    /\ disappeared = {}
    /\ other = NoOther
    /\ catalogue = c
    /\ last_commit = {}

\* No state file yet and every setting present.
Init == InitWith(AbsentFile, Settings, MainCatalogue)

\* Whatever an earlier program or a person left in last_run_deals.json.
InitialFiles ==
    {AbsentFile, PartialFile, NotObjectFile, IdsNullFile,
     IdsStringFile(<<"A">>), RecordFile(<<>>), RecordFile(<<"A">>)}

InitAnyFile == \E f \in InitialFiles : InitWith(f, Settings, MainCatalogue)

\* Environments with every setting, or with one of them missing.
Envs == {Settings} \cup {Settings \ {x} : x \in Settings}

InitAnyEnv == \E e \in Envs : InitWith(AbsentFile, e, MainCatalogue)

InitCatalogues ==
    \E c \in {IdentityCatalogue, ThreeIdCatalogue} :
        InitWith(AbsentFile, Settings, c)

(***************************************************************************)
(* Operations                                                              *)
(***************************************************************************)

\* The fetch returned 200 with a body that response.json() parsed.
Fetched200(r) == ~r.exc /\ r.status = 200 /\ r.body # Unparseable

\* main: monitor = BFMRMonitor(); __init__ loads the previous run's ids.
StartRun ==
    /\ pc \in {"idle", "done"}
    /\ ConfigValid(env)
    /\ pc' = "fetch"
    /\ file_at_start' = file
    /\ last_run_deals' = load_last_run_deals(file)
    /\ resp' = NoResp
    /\ gets' = 0
    /\ deals_data' = NoneVal
    /\ amazon_deals' = <<>>
    /\ current_amazon_ids' = {}
    /\ new_or_returning_deals' = <<>>
    /\ committed' = FALSE
    /\ notif_step' = "pending"
    /\ mails' = 0
    /\ email_ok' = "none"
    /\ outcome' = "none"
    /\ exit_code' = -1
    /\ prev_run' = this_run
    /\ this_run' = NoRun
    /\ log' = "none"
    /\ disappeared' = {}
    /\ UNCHANGED <<file, env, other, catalogue, last_commit>>

\* main: BFMRMonitor() raises ValueError at line 35, before the file is
\* loaded; main prints "Configuration Error" and returns 1.
ConfigError ==
    /\ pc \in {"idle", "done"}
    /\ ~ConfigValid(env)
    /\ pc' = "done"
    /\ outcome' = "config_error"
    /\ exit_code' = main_except("ValueError").code
    /\ log' = main_except("ValueError").log
    /\ file_at_start' = file
    /\ last_run_deals' = {}
    /\ resp' = NoResp
    /\ gets' = 0
    /\ deals_data' = NoneVal
    /\ amazon_deals' = <<>>
    /\ current_amazon_ids' = {}
    /\ new_or_returning_deals' = <<>>
    /\ committed' = FALSE
    /\ notif_step' = "pending"
    /\ mails' = 0
    /\ email_ok' = "none"
    /\ prev_run' = this_run
    /\ this_run' = NoRun
    /\ disappeared' = {}
    /\ UNCHANGED <<file, env, other, catalogue, last_commit>>

\* Variant of get_deals that issues a second GET after any failed first one,
\* a 401 included.
Fetch_retrying ==
    /\ pc = "fetch"
    /\ \E r \in Responses(catalogue) :
        /\ resp' = r
        /\ deals_data' = get_deals(r)
        /\ pc' = IF ~Fetched200(r) /\ gets = 0 THEN "fetch" ELSE "check"
    /\ gets' = gets + 1
    /\ UNCHANGED <<file, file_at_start, last_run_deals, amazon_deals,
                   current_amazon_ids, new_or_returning_deals, committed,
                   notif_step, mails, email_ok, outcome, exit_code,
                   this_run, prev_run,
                   env, log, disappeared, other, catalogue, last_commit>>

\* deals_data = self.get_deals(): one requests.get, no loop around it.
Fetch ==
    /\ pc = "fetch"
    /\ \E r \in Responses(catalogue) :
        /\ resp' = r
        /\ deals_data' = get_deals(r)
    /\ gets' = gets + 1
    /\ pc' = "check"
    /\ UNCHANGED <<file, file_at_start, last_run_deals, amazon_deals,
                   current_amazon_ids, new_or_returning_deals, committed,
                   notif_step, mails, email_ok, outcome, exit_code,
                   this_run, prev_run,
                   env, log, disappeared, other, catalogue, last_commit>>

\* if not deals_data: print("Could not fetch deals"); return
\* The test is also true of an empty list and an empty object.
CouldNotFetch ==
    /\ pc = "check"
    /\ ~Truthy(deals_data)
    /\ pc' = "done"
    /\ outcome' = "could_not_fetch"
    /\ exit_code' = 0
    /\ this_run' = [NoRun EXCEPT !.has_q = Fetched200(resp),
                                 !.fetch_failed = ~Fetched200(resp)]
    /\ UNCHANGED <<file, file_at_start, last_run_deals, resp, gets, deals_data,
                   amazon_deals, current_amazon_ids, new_or_returning_deals,
                   committed, notif_step, mails, email_ok, prev_run,
                   env, log, disappeared, other, catalogue, last_commit>>

\* if not deals: print("No deals currently available"); return
NoDeals ==
    /\ pc = "check"
    /\ Truthy(deals_data)
    /\ Len(ExtractDeals(deals_data)) = 0
    /\ pc' = "done"
    /\ outcome' = "no_deals"
    /\ exit_code' = 0
    /\ this_run' = [NoRun EXCEPT !.has_q = TRUE]
    /\ UNCHANGED <<file, file_at_start, last_run_deals, resp, gets, deals_data,
                   amazon_deals, current_amazon_ids, new_or_returning_deals,
                   committed, notif_step, mails, email_ok, prev_run,
                   env, log, disappeared, other, catalogue, last_commit>>

\* The loop raises: the exception leaves check_for_new_deals before the
\* save and main's "except Exception" returns 1.
LoopException_truncating ==
    /\ pc = "check"
    /\ Truthy(deals_data)
    /\ Len(ExtractDeals(deals_data)) > 0
    /\ LoopRaises(ExtractDeals(deals_data))
    /\ pc' = "done"
    /\ outcome' = "exception"
    /\ exit_code' = main_except("AttributeError").code
    /\ log' = main_except("AttributeError").log
    /\ this_run' = NoRun
    /\ file' = PartialFile
    /\ UNCHANGED <<file_at_start, last_run_deals, resp, gets, deals_data,
                   amazon_deals, current_amazon_ids, new_or_returning_deals,
                   committed, notif_step, mails, email_ok, prev_run,
                   env, disappeared, other, catalogue, last_commit>>

LoopException ==
    /\ pc = "check"
    /\ Truthy(deals_data)
    /\ Len(ExtractDeals(deals_data)) > 0
    /\ LoopRaises(ExtractDeals(deals_data))
    /\ pc' = "done"
    /\ outcome' = "exception"
    /\ exit_code' = main_except("AttributeError").code
    /\ log' = main_except("AttributeError").log
    /\ this_run' = NoRun
    /\ UNCHANGED <<file, file_at_start, last_run_deals, resp, gets, deals_data,
                   amazon_deals, current_amazon_ids, new_or_returning_deals,
                   committed, notif_step, mails, email_ok, prev_run,
                   env, disappeared, other, catalogue, last_commit>>

\* The loop over the deals runs to its end.
Reconcile ==
    /\ pc = "check"
    /\ Truthy(deals_data)
    /\ Len(ExtractDeals(deals_data)) > 0
    /\ ~LoopRaises(ExtractDeals(deals_data))
    /\ LET deals == ExtractDeals(deals_data) IN
        /\ amazon_deals' = AmazonDeals(deals)
        /\ current_amazon_ids' = CurrentAmazonIds(deals)
        /\ new_or_returning_deals' = NewOrReturning(deals, last_run_deals)
        /\ this_run' = [has_q |-> TRUE,
                        qualified |-> CurrentAmazonIds(deals),
                        reported |-> Ids(NewOrReturning(deals, last_run_deals)),
                        undelivered |-> {},
                        fetch_failed |-> FALSE]
    /\ pc' = "save"
    /\ UNCHANGED <<file, file_at_start, last_run_deals, resp, gets, deals_data,
                   committed, notif_step, mails, email_ok, outcome, exit_code,
                   prev_run,
                   env, log, disappeared, other, catalogue, last_commit>>

\* save_current_run_deals: open(self.last_run_file, 'w') truncates the file.
SaveOpen ==
    /\ pc = "save"
    /\ file' = PartialFile
    /\ last_commit' = {}
    /\ pc' = "save_dump"
    /\ UNCHANGED <<file_at_start, last_run_deals, resp, gets, deals_data,
                   amazon_deals, current_amazon_ids, new_or_returning_deals,
                   committed, notif_step, mails, email_ok, outcome, exit_code,
                   this_run, prev_run,
                   env, log, disappeared, other, catalogue>>

\* save_current_run_deals: json.dump writes the record and the file closes.
SaveDump ==
    /\ pc = "save_dump"
    /\ \E l \in ListsOf(current_amazon_ids) :
          file' = Overlay(file, RecordFile(l))
    /\ committed' = TRUE
    /\ last_commit' = Range(amazon_deals)
    /\ pc' = "notify"
    /\ UNCHANGED <<file_at_start, last_run_deals, resp, gets, deals_data,
                   amazon_deals, current_amazon_ids, new_or_returning_deals,
                   notif_step, mails, email_ok, outcome, exit_code,
                   this_run, prev_run,
                   env, log, disappeared, other, catalogue>>

\* The write raises (OSError) or the process is stopped between the
\* truncation and the end of json.dump: the file keeps the written prefix.
SaveInterrupted ==
    /\ pc = "save_dump"
    /\ pc' = "done"
    /\ outcome' = "save_failed"
    /\ exit_code' = main_except("OSError").code
    /\ log' = main_except("OSError").log
    /\ UNCHANGED <<file, file_at_start, last_run_deals, resp, gets, deals_data,
                   amazon_deals, current_amazon_ids, new_or_returning_deals,
                   committed, notif_step, mails, email_ok, this_run, prev_run,
                   env, disappeared, other, catalogue, last_commit>>

\* Variant of the notification step that restores the previous file when
\* send_email returns False.
Notify_rollback ==
    /\ pc = "notify"
    /\ IF Len(new_or_returning_deals) > 0
       THEN \E ok \in SendResults(env) :
              /\ mails' = mails + 1
              /\ email_ok' = IF ok THEN "sent" ELSE "failed"
              /\ notif_step' = "notified"
              /\ this_run' = [this_run EXCEPT !.undelivered =
                                IF ok THEN {} ELSE Ids(new_or_returning_deals)]
              /\ file' = IF ok THEN file ELSE file_at_start
       ELSE /\ notif_step' = "skipped"
            /\ UNCHANGED <<mails, email_ok, this_run, file>>
    /\ disappeared' = Disappeared(last_run_deals, current_amazon_ids)
    /\ pc' = "done"
    /\ outcome' = "completed"
    /\ exit_code' = 0
    /\ UNCHANGED <<file_at_start, last_run_deals, resp, gets, deals_data,
                   amazon_deals, current_amazon_ids, new_or_returning_deals,
                   committed, prev_run,
                   env, log, other, catalogue, last_commit>>

\* Variant of the notification step that calls send_email a second time
\* when the first call returned False.
Notify_retrying ==
    /\ pc = "notify"
    /\ IF Len(new_or_returning_deals) > 0
       THEN \E ok \in SendResults(env) :
              /\ mails' = IF ok THEN mails + 1 ELSE mails + 2
              /\ email_ok' = IF ok THEN "sent" ELSE "failed"
              /\ notif_step' = "notified"
              /\ this_run' = [this_run EXCEPT !.undelivered =
                                IF ok THEN {} ELSE Ids(new_or_returning_deals)]
       ELSE /\ notif_step' = "skipped"
            /\ UNCHANGED <<mails, email_ok, this_run>>
    /\ disappeared' = Disappeared(last_run_deals, current_amazon_ids)
    /\ pc' = "done"
    /\ outcome' = "completed"
    /\ exit_code' = 0
    /\ UNCHANGED <<file, file_at_start, last_run_deals, resp, gets, deals_data,
                   amazon_deals, current_amazon_ids, new_or_returning_deals,
                   committed, prev_run,
                   env, log, other, catalogue, last_commit>>

\* if new_or_returning_deals: ... self.send_email(subject, email_body)
\* send_email returns True, or False when smtplib raised; else: nothing sent.
Notify ==
    /\ pc = "notify"
    /\ IF Len(new_or_returning_deals) > 0
       THEN \E ok \in SendResults(env) :
              /\ mails' = mails + 1
              /\ email_ok' = IF ok THEN "sent" ELSE "failed"
              /\ notif_step' = "notified"
              /\ this_run' = [this_run EXCEPT !.undelivered =
                                IF ok THEN {} ELSE Ids(new_or_returning_deals)]
       ELSE /\ notif_step' = "skipped"
            /\ UNCHANGED <<mails, email_ok, this_run>>
    /\ disappeared' = Disappeared(last_run_deals, current_amazon_ids)
    /\ pc' = "done"
    /\ outcome' = "completed"
    /\ exit_code' = 0
    /\ UNCHANGED <<file, file_at_start, last_run_deals, resp, gets, deals_data,
                   amazon_deals, current_amazon_ids, new_or_returning_deals,
                   committed, prev_run,
                   env, log, other, catalogue, last_commit>>

\* The variables only the first invocation changes.
runVars ==
    <<pc, file_at_start, last_run_deals, resp, gets, deals_data, amazon_deals,
      current_amazon_ids, new_or_returning_deals, committed, notif_step,
      mails, email_ok, outcome, exit_code, this_run, prev_run, env, log,
      disappeared, catalogue>>

\* A second invocation, started while the first one runs, has reconciled
\* and is about to save the ids it found.
OtherStart ==
    /\ other.pc = "none"
    /\ \E ids \in SUBSET {"A", "B"} :
         \E l \in ListsOf(ids) :
            other' = [pc |-> "save", deal_ids |-> l]
    /\ UNCHANGED <<runVars, file, last_commit>>

\* The second invocation's open(self.last_run_file, 'w')
OtherSaveOpen ==
    /\ other.pc = "save"
    /\ file' = PartialFile
    /\ last_commit' = {}
    /\ other' = [other EXCEPT !.pc = "save_dump"]
    /\ UNCHANGED runVars

\* The second invocation's json.dump and close: its record goes to offset
\* 0 of whatever the file holds by then.
OtherSaveDump ==
    /\ other.pc = "save_dump"
    /\ file' = Overlay(file, RecordFile(other.deal_ids))
    /\ other' = [other EXCEPT !.pc = "done"]
    /\ UNCHANGED <<runVars, last_commit>>

Next ==
    \/ StartRun
    \/ Fetch
    \/ CouldNotFetch
    \/ NoDeals
    \/ LoopException
    \/ Reconcile
    \/ SaveOpen
    \/ SaveDump
    \/ SaveInterrupted
    \/ Notify

Spec == Init /\ [][Next]_vars

\* The runs when the first one finds any file in the working directory.
SpecAnyFile == InitAnyFile /\ [][Next]_vars

\* The runs under any environment.
NextAnyEnv == Next \/ ConfigError

SpecAnyEnv == InitAnyEnv /\ [][NextAnyEnv]_vars

\* One run of the first invocation overlapping with a second invocation.
NextOverlap ==
    \/ (pc # "done" /\ Next)
    \/ OtherStart
    \/ OtherSaveOpen
    \/ OtherSaveDump

SpecOverlap == Init /\ [][NextOverlap]_vars

\* The runs against the two other catalogues.
SpecCatalogues == InitCatalogues /\ [][Next]_vars

(***************************************************************************)
(* Properties                                                              *)
(***************************************************************************)

\* The run's GET failed: transport exception, 401, another non-200 status,
\* or a 200 whose body does not parse.
FetchFailed == pc \in {"check", "done"} /\ ~Fetched200(resp)

\* C1: a run that does not complete reconciliation (failed fetch of any
\* kind, or an exception while the deals are processed) never writes the
\* state file: at every point of such a run the file is the one the run
\* started with.
C1_FailedRunLeavesFile ==
    (FetchFailed \/ outcome = "exception") => file = file_at_start

C1_Witness ==
    /\ pc = "done"
    /\ outcome = "exception"
    /\ file_at_start = RecordFile(<<"A">>)
    /\ file = RecordFile(<<"A">>)

\* C2: for two consecutive runs whose fetch returned 200, a non-empty id
\* absent from the qualified set of the first and present in the qualified
\* set of the second is among the deals the second run reports, also when
\* the first run saw no deals at all.
C2_ReturningReported ==
    (prev_run.has_q /\ this_run.has_q) =>
        \A id \in (this_run.qualified \ prev_run.qualified) \ {""} :
            id \in this_run.reported

\* The position in q of the k-th deal of q that satisfies keep.
KthKept(q, keep, k) ==
    CHOOSE i \in keep : Cardinality({j \in keep : j <= i}) = k

\* C3: the reportable sequence is exactly the subsequence of the qualified
\* sequence made of the deals whose non-empty id is not in the state loaded
\* at run start, in the order of the qualified sequence.
C3_ReportableIsSubsequence ==
    pc \in {"save", "save_dump", "notify"} \/ (pc = "done" /\ committed) =>
        LET Q == amazon_deals
            P == load_last_run_deals(file_at_start)
            R == new_or_returning_deals
            keep == {i \in 1..Len(Q) :
                        DealIdOf(Q[i]) # "" /\ DealIdOf(Q[i]) \notin P}
        IN  /\ Len(R) = Cardinality(keep)
            /\ \A k \in 1..Len(R) : R[k] = Q[KthKept(Q, keep, k)]

\* Scenario 2: previous state {A}, qualified [A, B], reportable [B].
C3_Witness ==
    /\ pc = "notify"
    /\ load_last_run_deals(file_at_start) = {"A"}
    /\ Len(amazon_deals) = 2
    /\ DealIdOf(amazon_deals[1]) = "A"
    /\ DealIdOf(amazon_deals[2]) = "B"
    /\ Len(new_or_returning_deals) = 1
    /\ DealIdOf(new_or_returning_deals[1]) = "B"

\* C4: every run whose fetch returns 200 with a parsed payload that the
\* loop can process, and whose write is not interrupted, ends with the
\* state committed, the file holding the qualified ids of that run only;
\* with zero deals the persisted set is empty.
C4_EveryFetchedRunCommits ==
    (/\ pc = "done"
     /\ Fetched200(resp)
     /\ ~LoopRaises(ExtractDeals(resp.body))
     /\ outcome # "save_failed") =>
        /\ committed
        /\ file.kind = "record"
        /\ Range(file.deal_ids) = CurrentAmazonIds(ExtractDeals(resp.body))

\* C5: a run is skipped as fetch-failed only after all attempts (three in
\* Scenario 4) failed: a run that ends after a timeout or a status other
\* than 200 and 401 has issued three GETs.
C5_SkippedOnlyAfterRetries ==
    (pc = "done" /\ (resp.exc \/ resp.status \notin {200, 401})) => gets >= 3

\* C6: a 401 is never retried: once a GET of the run returned 401 the
\* fetch has returned, that GET is the only one of the run, nothing is
\* mailed and the state file is the one the run started with.
C6_NoRetryAfter401 ==
    (~resp.exc /\ resp.status = 401) =>
        /\ pc \in {"check", "done"}
        /\ gets = 1
        /\ mails = 0
        /\ notif_step = "pending"
        /\ file = file_at_start

C6_Witness ==
    /\ pc = "done"
    /\ ~resp.exc
    /\ resp.status = 401
    /\ file_at_start = RecordFile(<<"A", "B">>)

\* C7: the value get_deals returns for a 401 differs from the value it
\* returns for a timeout or another non-200 status.
C7_AuthDistinctFromTransient ==
    (pc = "check" /\ ~resp.exc /\ resp.status = 401) =>
        \A r \in Responses(catalogue) :
            (r.exc \/ r.status \notin {200, 401}) => get_deals(r) # deals_data

\* C8: when the mail of the previous run failed after its state was saved,
\* a next run with a successful fetch does not report again the deals of
\* that mail that are still qualified, and the notification step never
\* changes the state file.
C8_FailedMailNotReportedAgain ==
    /\ [](this_run.has_q =>
            \A id \in prev_run.undelivered \cap this_run.qualified :
                id \notin this_run.reported)
    /\ [][pc = "notify" => file' = file]_vars

C8_Witness ==
    /\ pc = "done"
    /\ prev_run.undelivered = {"A"}
    /\ "A" \in this_run.qualified
    /\ "B" \in this_run.reported
    /\ file = RecordFile(<<"A", "B">>)

\* C9: the save of the state happens after the notification step has been
\* performed or skipped, never before it.
C9_SaveAfterNotification ==
    committed => notif_step # "pending"

\* C10: whatever happens during the save, a later load reads either the
\* complete old state or the complete new state.
C10_SaveAtomic ==
    pc = "done" =>
        \/ load_last_run_deals(file) = load_last_run_deals(file_at_start)
        \/ load_last_run_deals(file) = current_amazon_ids

\* C11: load never fails, and when the state file is absent, unparseable
\* or of the wrong shape it returns the empty state, so that the run
\* reports every qualified listing with a non-empty id.
C11_LoadDegradesToEmpty ==
    (pc # "idle" /\ file_at_start.kind # "record") =>
        /\ last_run_deals = {}
        /\ (pc \in {"save", "save_dump", "notify"} =>
                Ids(new_or_returning_deals) = current_amazon_ids \ {""})

\* C13: main returns 0 for every run that ends normally, and a non-zero
\* code for a configuration error and for an unexpected error, which the
\* message main prints tells apart.
C13_ExitCodes ==
    pc = "done" =>
        /\ (outcome \in {"completed", "could_not_fetch", "no_deals"} =>
                exit_code = 0 /\ log = "none")
        /\ (outcome = "config_error" =>
                exit_code # 0 /\ log = "config_error")
        /\ (outcome \in {"exception", "save_failed"} =>
                exit_code # 0 /\ log = "unexpected_error")

C13_Witness ==
    /\ pc = "done"
    /\ outcome = "config_error"
    /\ "EMAIL_PASSWORD" \notin env
    /\ exit_code = 1

\* C14: when a required setting is missing (EMAIL_TO among them) the run
\* ends with a configuration error without issuing a GET, reading or
\* writing the state file, or reaching the fetch step.
C14_MissingSettingAborts ==
    (env # Settings /\ pc # "idle") =>
        /\ pc = "done"
        /\ outcome = "config_error"
        /\ gets = 0
        /\ file = file_at_start

\* The run went through its notification step, or returned before it
\* because there was nothing to process.
EndedNormally ==
    pc = "done" /\ outcome \in {"completed", "could_not_fetch", "no_deals"}

C15_RoundTrip ==
    (committed /\ pc \in {"notify", "done"}) =>
        /\ file.kind = "record"
        /\ load_last_run_deals(file) = current_amazon_ids

C15_Witness ==
    /\ committed
    /\ pc = "done"
    /\ current_amazon_ids = {"", "A"}
    /\ Len(file.deal_ids) = 2

\* C16: the disappeared ids of a run are the ids of the state loaded at
\* run start minus the ids of the run's qualified set (Scenario 6:
\* previous {A, B}, qualified [B, C], reportable [C], disappeared {A}).
C16_DisappearedIds ==
    (pc = "done" /\ outcome = "completed") =>
        disappeared = load_last_run_deals(file_at_start) \ this_run.qualified

C16_Witness ==
    /\ pc = "done"
    /\ outcome = "completed"
    /\ load_last_run_deals(file_at_start) = {"A", "B"}
    /\ Len(amazon_deals) = 2
    /\ amazon_deals[1].deal_id = "B"
    /\ amazon_deals[2].deal_id = "C"
    /\ Len(new_or_returning_deals) = 1
    /\ new_or_returning_deals[1].deal_id = "C"
    /\ disappeared = {"A"}

\* C18: a qualified listing without an id, or with an empty one, adds no
\* entry to the persisted state and makes no entry appear among the
\* disappeared ids of a later run.
C18_EmptyIdNotPersisted ==
    /\ (file.kind = "record" => "" \notin Range(file.deal_ids))
    /\ "" \notin disappeared

C17_OverlapKeepsARecord ==
    (pc = "done" /\ committed /\ other.pc = "done") =>
        /\ file.kind = "record"
        /\ \/ Range(file.deal_ids) = current_amazon_ids
           \/ file.deal_ids = other.deal_ids

====
